---- MODULE Spec2Model ----
(***************************************************************************)
(* Model of the PCX laptop scraper (src/Exercise.py, src/Scraper.py,       *)
(* src/PyScraper.py): price parsing, listing extraction, detail-page       *)
(* extraction, the merge loop, and the three drivers (Exercise.main and    *)
(* the two ScraperGUI.run_scraper variants).                               *)
(*                                                                         *)
(* Python values are tagged records: None, str (a sequence of character or *)
(* word tokens) and float (an exact decimal num / 10^exp).  A dict is a    *)
(* function from keys (token sequences) to Python values.  A parsed page   *)
(* (BeautifulSoup) is a sequence of nodes in document order, each with the *)
(* index of its parent (0 is the soup object itself).                      *)
(***************************************************************************)
EXTENDS Integers, Sequences, FiniteSets, TLC

VARIABLES
    variant,        \* which file runs: "Exercise" | "Scraper" | "PyScraper"
    price_str,      \* parse_price: the argument (a Python value)
    price_out,      \* parse_price: [raised, val] once it has returned
    ppc,            \* parse_price: "call" | "done" | "off"
    laptop,         \* scrape_spec_page: the argument (a listing dict)
    resp,           \* scrape_spec_page: what requests.get(laptop["link"]) does
    spec_section,   \* scrape_spec_page: the block located (a node, or NoNode)
    specs,          \* scrape_spec_page: the dict returned
    dpc,            \* scrape_spec_page: "call" | "done" | "off"
    page,           \* scrape_laptops_list: what requests.get(page_url) does
    faults,         \* scrape_laptops_list: the cards whose parsing raises
    product_cards,  \* scrape_laptops_list: the candidate cards, in order
    list_out,       \* scrape_laptops_list: [raised, results]
    lpc,            \* scrape_laptops_list: "call" | "done" | "off"
    button,         \* ScraperGUI.start_button's state: "normal" | "disabled"
    progress,       \* ScraperGUI.progress is running
    dialog,         \* the main thread's modal box: "none" | "invalid_url"
    tpc,            \* per thread: where main / run_scraper stands
    listings,       \* per thread: the listing records
    idx,            \* per thread: merge_data's records done so far
    full,           \* per thread: merge_data's result so far
    resps,          \* per thread: what each detail fetch did, in call order
    err,            \* per thread: the exception run_scraper caught
    leaving,        \* the frames of the threads that have enabled the button
                    \* and have yet to return from run_scraper
    csv,            \* laptops_scraped.csv: NoFile, or [complete, fieldnames, rows]
    site            \* pcx.com.ph: the listing page, the detail page of each URL

priceVars == <<price_str, price_out, ppc>>
detailVars == <<laptop, resp, spec_section, specs, dpc>>
listVars == <<page, faults, product_cards, list_out, lpc>>
guiVars == <<button, progress, dialog>>
runVars == <<tpc, listings, idx, full, resps, err, leaving, csv>>
\* What a run of the drivers leaves alone.
unitVars == <<variant, price_str, price_out, ppc, laptop, resp, spec_section,
              specs, dpc, page, faults, product_cards, list_out, lpc, site>>

-----------------------------------------------------------------------------
(* Python values *)

PyNone == [t |-> "None"]
PyStr(s) == [t |-> "str", s |-> s]
PyFloat(n, e) == [t |-> "float", num |-> n, exp |-> e]

IsNone(v) == v.t = "None"

\* Python truthiness of None / str values (`if not x`, `if x`, `x and ...`).
Truthy(v) == v.t = "str" /\ v.s # <<>>

-----------------------------------------------------------------------------
(* Text: a str is a sequence of tokens; a token is a word, ":", " " or "\n". *)

Whitespace == {" ", "\n"}

\* str.strip()
RECURSIVE lstrip(_)
lstrip(s) == IF s # <<>> /\ Head(s) \in Whitespace THEN lstrip(Tail(s)) ELSE s
RECURSIVE rstrip(_)
rstrip(s) == IF s # <<>> /\ s[Len(s)] \in Whitespace
             THEN rstrip(SubSeq(s, 1, Len(s) - 1)) ELSE s
strip(s) == rstrip(lstrip(s))

\* str.splitlines(): the lines between "\n" tokens, no empty last line.
RECURSIVE splitlines_from(_, _)
splitlines_from(s, cur) ==
    IF s = <<>> THEN (IF cur = <<>> THEN <<>> ELSE <<cur>>)
    ELSE IF Head(s) = "\n" THEN <<cur>> \o splitlines_from(Tail(s), <<>>)
    ELSE splitlines_from(Tail(s), Append(cur, Head(s)))
splitlines(s) == splitlines_from(s, <<>>)

\* sep.join(parts)
RECURSIVE join(_, _)
join(sep, parts) ==
    IF parts = <<>> THEN <<>>
    ELSE IF Len(parts) = 1 THEN parts[1]
    ELSE parts[1] \o sep \o join(sep, Tail(parts))

\* "x" in s, for the words the code looks for.  A word token contains the
\* pattern when it is one of these.
SpecificationWords == {"Specification", "Specifications"}
SpecificationWordsAnyCase == SpecificationWords \cup {"SPECIFICATION", "specification"}
BatteryWordsAnyCase == {"Battery", "battery", "BATTERY"}
WeightWordsAnyCase == {"Weight", "weight", "Lightweight"}
PesoWords == {"PHP"}

HasWord(s, words) == \E i \in 1..Len(s) : s[i] \in words

-----------------------------------------------------------------------------
(* The parsed page: BeautifulSoup(resp.text, "html.parser").  doc[i] is the  *)
(* i-th node in document order; doc[i].parent < i, 0 being the soup object.  *)

Elem(tag, cls, id, href, parent) ==
    [kind |-> "tag", tag |-> tag, cls |-> cls, id |-> id, href |-> href,
     s |-> <<>>, parent |-> parent]
TextNode(s, parent) ==
    [kind |-> "text", tag |-> "", cls |-> "", id |-> "", href |-> PyNone,
     s |-> s, parent |-> parent]

IsTag(doc, i) == doc[i].kind = "tag"
IsText(doc, i) == doc[i].kind = "text"

\* a is an ancestor of i (a = 0, the soup, is an ancestor of every node).
RECURSIVE IsAncestor(_, _, _)
IsAncestor(doc, a, i) ==
    IF i = 0 THEN FALSE
    ELSE doc[i].parent = a \/ IsAncestor(doc, a, doc[i].parent)

\* The members of the index set S as a sequence in document order.
RECURSIVE InOrder(_)
InOrder(S) ==
    IF S = {} THEN <<>>
    ELSE LET m == CHOOSE x \in S : \A y \in S : x <= y
         IN <<m>> \o InOrder(S \ {m})

\* One simple CSS selector: tag ("*" for any), class and id ("" for any).
Sel(tag, cls, id) == [tag |-> tag, cls |-> cls, id |-> id]
Matches(n, sel) ==
    /\ n.kind = "tag"
    /\ sel.tag \in {"*", n.tag}
    /\ sel.cls \in {"", n.cls}
    /\ sel.id \in {"", n.id}

\* root.select("s1, s2, ..."): the descendants of root matching any of the
\* selectors, each once, in document order.
select(doc, root, sels) ==
    InOrder({i \in 1..Len(doc) :
                /\ IsAncestor(doc, root, i)
                /\ \E sel \in sels : Matches(doc[i], sel)})

\* root.select_one(...), root.find(tag): the first match, or None (NoNode).
NoNode == 0 - 1
FirstOf(seq) == IF seq = <<>> THEN NoNode ELSE seq[1]
select_one(doc, root, sels) == FirstOf(select(doc, root, sels))
find_all(doc, root, tag) == select(doc, root, {Sel(tag, "", "")})
find(doc, root, tag) == FirstOf(find_all(doc, root, tag))

\* The strings below root, in document order.
Strings(doc, root) ==
    LET at == InOrder({i \in 1..Len(doc) : IsText(doc, i) /\ IsAncestor(doc, root, i)})
    IN [k \in 1..Len(at) |-> doc[at[k]].s]

\* root.get_text(): the strings below root concatenated.
get_text(doc, root) == join(<<>>, Strings(doc, root))

\* root.get_text(separator=sep, strip=True): each string stripped, the empty
\* ones dropped, joined by sep.
get_text_strip(doc, root, sep) ==
    LET all == Strings(doc, root)
        stripped == [k \in 1..Len(all) |-> strip(all[k])]
    IN join(sep, SelectSeq(stripped, LAMBDA x : x # <<>>))

\* soup.find(text=re.compile(pattern, re.IGNORECASE)): the first string of the
\* document, in document order, that the pattern matches anywhere.
find_text(doc, words) ==
    FirstOf(InOrder({i \in 1..Len(doc) : IsText(doc, i) /\ HasWord(doc[i].s, words)}))

-----------------------------------------------------------------------------
(* parse_price *)

\* Bounds of the price inputs.
MaxPriceLen == 3

AsciiDigits == {"0", "2", "5"}
\* A decimal digit outside ASCII (U+0663 ARABIC-INDIC DIGIT THREE): Python 3's
\* \d matches it on str patterns, and float() reads it as 3.
UnicodeDigits == {"ARABIC-INDIC-3"}
\* "PHP" stands for the peso sign.
PriceChars == AsciiDigits \cup UnicodeDigits \cup {".", ",", "PHP", "F"}

\* re's \d on a str pattern: any Unicode decimal digit.
IsDigit(c) == c \in AsciiDigits \cup UnicodeDigits

DigitVal(c) ==
    CASE c = "0" -> 0
      [] c = "2" -> 2
      [] c = "5" -> 5
      [] c = "ARABIC-INDIC-3" -> 3
      [] OTHER -> 0

\* re.sub(r"[^\d\.]", "", s): drop every character that is neither \d nor ".".
RECURSIVE re_sub_non_digit_dot(_)
re_sub_non_digit_dot(s) ==
    IF s = <<>> THEN <<>>
    ELSE LET c == Head(s)
             rest == re_sub_non_digit_dot(Tail(s))
         IN IF IsDigit(c) \/ c = "." THEN <<c>> \o rest ELSE rest

\* Drop trailing zeros of the fraction: 26999.00 and 26999 are the same float.
RECURSIVE NormDec(_, _)
NormDec(n, e) ==
    IF e > 0 /\ n % 10 = 0 THEN NormDec(n \div 10, e - 1) ELSE PyFloat(n, e)

\* float(s) scanned left to right; st = [n, e, dots, digits].  Returns
\* [raised |-> TRUE] for ValueError, else the value.
RECURSIVE float_scan(_, _)
float_scan(s, st) ==
    IF s = <<>>
    THEN IF st.digits = 0
         THEN [raised |-> TRUE, val |-> PyNone]
         ELSE [raised |-> FALSE, val |-> NormDec(st.n, st.e)]
    ELSE LET c == Head(s) IN
         IF c = "."
         THEN IF st.dots = 1
              THEN [raised |-> TRUE, val |-> PyNone]
              ELSE float_scan(Tail(s), [st EXCEPT !.dots = 1])
         ELSE IF IsDigit(c)
         THEN float_scan(Tail(s),
                [st EXCEPT !.n = st.n * 10 + DigitVal(c),
                           !.e = IF st.dots = 1 THEN st.e + 1 ELSE st.e,
                           !.digits = st.digits + 1])
         ELSE [raised |-> TRUE, val |-> PyNone]

float_(s) == float_scan(s, [n |-> 0, e |-> 0, dots |-> 0, digits |-> 0])

\* Mutant of parse_price: no try/except around float().
parse_price_no_except(price_str_) ==
    IF ~Truthy(price_str_)
    THEN [raised |-> FALSE, val |-> PyNone]
    ELSE float_(re_sub_non_digit_dot(price_str_.s))

\* parse_price(price_str): [raised, val].
parse_price(price_str_) ==
    IF ~Truthy(price_str_)
    THEN [raised |-> FALSE, val |-> PyNone]
    ELSE LET s == re_sub_non_digit_dot(price_str_.s)
             f == float_(s)
         IN IF f.raised
            THEN [raised |-> FALSE, val |-> PyNone]   \* except: return None
            ELSE [raised |-> FALSE, val |-> f.val]

RECURSIVE SeqsUpTo(_, _)
SeqsUpTo(S, n) ==
    IF n = 0 THEN {<<>>}
    ELSE LET shorter == SeqsUpTo(S, n - 1)
         IN shorter \cup {<<c>> \o s : c \in S, s \in {q \in shorter : Len(q) = n - 1}}

PriceInputs(n) == {PyNone} \cup {PyStr(s) : s \in SeqsUpTo(PriceChars, n)}

PriceIdle == /\ price_str = PyNone
             /\ price_out = [raised |-> FALSE, val |-> PyNone]
             /\ ppc = "off"

PriceInit == /\ price_str \in PriceInputs(MaxPriceLen)
             /\ price_out = [raised |-> FALSE, val |-> PyNone]
             /\ ppc = "call"

ParsePrice == /\ ppc = "call"
              /\ price_out' = parse_price(price_str)
              /\ ppc' = "done"
              /\ UNCHANGED <<variant, price_str, detailVars, listVars, guiVars, runVars, site>>

-----------------------------------------------------------------------------
(* dict *)

EmptyDict == [k \in {} |-> PyNone]
\* d[k] = v
DictSet(d, k, v) == [x \in (DOMAIN d) \cup {k} |-> IF x = k THEN v ELSE d[x]]
\* {**a, **b}
DictMerge(a, b) ==
    [x \in (DOMAIN a) \cup (DOMAIN b) |-> IF x \in DOMAIN b THEN b[x] ELSE a[x]]

-----------------------------------------------------------------------------
(* scrape_spec_page *)

Variants == {"Exercise", "Scraper", "PyScraper"}

HeadingSelectors ==
    {Sel("h4", "", ""), Sel("h3", "", ""), Sel("h2", "", ""), Sel("strong", "", "")}
SpecPanelSelectors ==
    {Sel("div", "", "ProductTabs-specification"),
     Sel("div", "product-specifications", ""),
     Sel("div", "tab-content", "")}

\* for h in soup.select("h4, h3, h2, strong"):
\*     if "Specification" in h.get_text(): spec_section = h.find_parent(); break
\* then the select_one fallback when spec_section is None.
heading_section(doc, words) ==
    LET hs == select(doc, 0, HeadingSelectors)
        hit == SelectSeq(hs, LAMBDA h : HasWord(get_text(doc, h), words))
    IN IF hit = <<>> THEN NoNode ELSE doc[hit[1]].parent

find_spec_section(doc) ==
    LET sec == heading_section(doc, SpecificationWords)
    IN IF sec # NoNode THEN sec ELSE select_one(doc, 0, SpecPanelSelectors)

\* The index of the first ":" of a line, 0 when it has none.
FirstColon(line) ==
    IF \E i \in 1..Len(line) : line[i] = ":"
    THEN CHOOSE i \in 1..Len(line) : line[i] = ":" /\ \A j \in 1..(i - 1) : line[j] # ":"
    ELSE 0

\* Mutant: line.rsplit(":", 1), the split at the last colon.
LastColon(line) ==
    IF \E i \in 1..Len(line) : line[i] = ":"
    THEN CHOOSE i \in 1..Len(line) :
            line[i] = ":" /\ \A j \in (i + 1)..Len(line) : line[j] # ":"
    ELSE 0

\* Where line.split(":", 1) splits.
SplitAt(line) == FirstColon(line)

\* for line in text.splitlines():
\*     if ":" in line: key, val = line.split(":", 1); specs[key.strip()] = val.strip()
RECURSIVE parse_lines(_, _)
parse_lines(lines, specs_) ==
    IF lines = <<>> THEN specs_
    ELSE LET line == Head(lines)
             c == SplitAt(line)
         IN IF c = 0 THEN parse_lines(Tail(lines), specs_)
            ELSE LET key == strip(SubSeq(line, 1, c - 1))
                     val == strip(SubSeq(line, c + 1, Len(line)))
                 IN parse_lines(Tail(lines), DictSet(specs_, key, PyStr(val)))

\* if spec_section: text = spec_section.get_text(separator="\n", strip=True) ...
parse_block(doc, spec_section_) ==
    IF spec_section_ = NoNode THEN EmptyDict
    ELSE parse_lines(splitlines(get_text_strip(doc, spec_section_, <<"\n">>)), EmptyDict)

\* x_el = soup.find(text=re.compile(word, re.IGNORECASE))
\* if x_el: specs[key] = x_el.strip()
text_lookup(doc, specs_, key, words) ==
    LET el == find_text(doc, words)
    IN IF el # NoNode /\ doc[el].s # <<>>
       THEN DictSet(specs_, key, PyStr(strip(doc[el].s)))
       ELSE specs_

\* Mutant: the two lookups run before the block is parsed, so the block wins.
supplementary_lookups_first(variant_, doc, specs_) ==
    IF variant_ = "Exercise"
    THEN DictMerge(text_lookup(doc,
                               text_lookup(doc, EmptyDict, <<"Battery">>, BatteryWordsAnyCase),
                               <<"Weight">>, WeightWordsAnyCase),
                   specs_)
    ELSE specs_

\* Exercise.py only: the Battery lookup, then the Weight lookup.
supplementary_lookups(variant_, doc, specs_) ==
    IF variant_ = "Exercise"
    THEN text_lookup(doc,
                     text_lookup(doc, specs_, <<"Battery">>, BatteryWordsAnyCase),
                     <<"Weight">>, WeightWordsAnyCase)
    ELSE specs_

\* The response to requests.get(link): it raised (or raise_for_status did), or
\* it brought a page.
FetchFailed == [ok |-> FALSE, doc |-> <<>>]
Fetched(doc) == [ok |-> TRUE, doc |-> doc]

\* scrape_spec_page(laptop): the dict of new fields.
scrape_spec_page(variant_, laptop_, resp_) ==
    IF ~Truthy(laptop_[<<"link">>]) THEN EmptyDict
    ELSE IF ~resp_.ok THEN EmptyDict
    ELSE supplementary_lookups(variant_, resp_.doc,
                               parse_block(resp_.doc, find_spec_section(resp_.doc)))

\* Pages as inputs: every document of at most n nodes over a pool of node
\* shapes.  A node is appended below the soup or below an element on the
\* rightmost path; the parser never leaves two strings side by side.
ElemShape(tag, cls, id, href) == Elem(tag, cls, id, href, 0)
TextShape(s) == TextNode(s, 0)

OpenAt(doc) ==
    IF doc = <<>> THEN {0}
    ELSE {0} \cup {j \in 1..Len(doc) :
                     IsTag(doc, j) /\ (j = Len(doc) \/ IsAncestor(doc, j, Len(doc)))}

Extensions(doc, pool) ==
    {Append(doc, [shape EXCEPT !.parent = p]) :
        shape \in pool,
        p \in {q \in OpenAt(doc) :
                 ~(doc # <<>> /\ IsText(doc, Len(doc)) /\ doc[Len(doc)].parent = q)}}

AdjacentText(doc) ==
    \E i \in 2..Len(doc) :
        IsText(doc, i) /\ IsText(doc, i - 1) /\ doc[i].parent = doc[i - 1].parent

RECURSIVE DocsOfLen(_, _)
DocsOfLen(pool, n) ==
    IF n = 0 THEN {<<>>}
    ELSE {d \in UNION {Extensions(doc, pool) : doc \in DocsOfLen(pool, n - 1)} :
            ~AdjacentText(d)}

Docs(pool, n) == UNION {DocsOfLen(pool, k) : k \in 0..n}

\* Detail pages, structure: headings in and out of containers, with and
\* without the word, in either case; a specification panel; a Battery line
\* and a line that only mentions weight.
MaxDetailNodes == 4
DetailPool ==
    {ElemShape("h4", "", "", PyNone), ElemShape("div", "tab-content", "", PyNone),
     TextShape(<<"Specification">>), TextShape(<<"SPECIFICATION">>),
     TextShape(<<"Battery", ":", "4-cell">>), TextShape(<<"Lightweight">>)}
\* Two pages with several headings: an h2 with the word in a div, before an
\* h4 with the word outside it; and a strong with the word in a panel of id
\* ProductTabs-specification, after a div of class product-specifications.
TwoHeadings ==
    <<Elem("div", "", "", PyNone, 0), Elem("h2", "", "", PyNone, 1),
      TextNode(<<"Specifications">>, 2), TextNode(<<"CPU", ":", "i7">>, 1),
      Elem("h4", "", "", PyNone, 0), TextNode(<<"Specification">>, 5),
      TextNode(<<"Weight", ":", "1kg">>, 0)>>
StrongInPanel ==
    <<Elem("div", "product-specifications", "", PyNone, 0),
      TextNode(<<"GPU", ":", "RTX">>, 1),
      Elem("div", "", "ProductTabs-specification", PyNone, 0),
      Elem("strong", "", "", PyNone, 3), TextNode(<<" ", "Specification", " ">>, 4),
      TextNode(<<"\n", "Battery", " ", ":", " ", "4-cell", "\n">>, 3)>>
DetailDocs(n) == Docs(DetailPool, n) \cup {TwoHeadings, StrongInPanel}

\* Detail pages, text: one specification panel holding one string of at most
\* MaxBlockLen tokens.
MaxBlockLen == 6
BlockTokens == {"K", ":", " ", "\n"}
BlockDocs(n) ==
    {<<ElemShape("div", "tab-content", "", PyNone), TextNode(s, 1)>> :
        s \in SeqsUpTo(BlockTokens, n) \ {<<>>}}

LinkedLaptop ==
    [k \in {<<"name">>, <<"link">>, <<"price_php">>} |->
        CASE k = <<"name">> -> PyStr(<<"ACER">>)
          [] k = <<"link">> -> PyStr(<<"https://pcx.com.ph", "/products/acer">>)
          [] OTHER -> PyNone]
UnlinkedLaptop == [LinkedLaptop EXCEPT ![<<"link">>] = PyNone]

DetailIdle == /\ laptop = UnlinkedLaptop
              /\ resp = FetchFailed
              /\ spec_section = NoNode
              /\ specs = EmptyDict
              /\ dpc = "off"

DetailInit ==
    /\ \/ /\ laptop = LinkedLaptop
          /\ resp \in {FetchFailed} \cup {Fetched(d) : d \in DetailDocs(MaxDetailNodes) \cup BlockDocs(MaxBlockLen)}
       \/ /\ laptop = UnlinkedLaptop
          /\ resp = FetchFailed
    /\ spec_section = NoNode
    /\ specs = EmptyDict
    /\ dpc = "call"

\* Whether scrape_spec_page gets as far as parsing a page.
PageParsed(laptop_, resp_) == Truthy(laptop_[<<"link">>]) /\ resp_.ok

ScrapeSpecPage ==
    /\ dpc = "call"
    /\ specs' = scrape_spec_page(variant, laptop, resp)
    /\ spec_section' = IF PageParsed(laptop, resp)
                       THEN find_spec_section(resp.doc) ELSE NoNode
    /\ dpc' = "done"
    /\ UNCHANGED <<variant, laptop, resp, priceVars, listVars, guiVars, runVars, site>>

-----------------------------------------------------------------------------
(* scrape_laptops_list *)

BASE_URL == <<"https://pcx.com.ph">>

CardSelectors ==
    {Sel("div", "product-card", ""), Sel("li", "product-item", ""),
     Sel("div", "grid-product", "")}
PriceSelectors ==
    {Sel("*", "price", ""), Sel("*", "product-price", ""), Sel("*", "money", "")}

\* Mutant: the h3 headings are added to the primary matches, always.
candidate_cards_both(doc) ==
    select(doc, 0, CardSelectors \cup {Sel("h3", "", "")})

\* product_cards = soup.select(...); if not product_cards: soup.find_all("h3")
candidate_cards(doc) ==
    LET primary == select(doc, 0, CardSelectors)
    IN IF primary # <<>> THEN primary ELSE find_all(doc, 0, "h3")

\* pc.find("a") or pc.find("h3"): descendants of the card only.
name_tag_of(doc, pc) ==
    IF find(doc, pc, "a") # NoNode THEN find(doc, pc, "a") ELSE find(doc, pc, "h3")

\* pc.find_next_sibling(text=re.compile(peso)): the first string after pc
\* among its siblings that has the peso sign.
find_next_sibling_text(doc, pc, words) ==
    FirstOf(InOrder({i \in (pc + 1)..Len(doc) :
                       /\ IsText(doc, i)
                       /\ doc[i].parent = doc[pc].parent
                       /\ HasWord(doc[i].s, words)}))

\* pc.find_next(string=re.compile(...)): the first string after pc in
\* document order (its own descendants included) that matches.
find_next_text(doc, pc, words) ==
    FirstOf(InOrder({i \in (pc + 1)..Len(doc) :
                       IsText(doc, i) /\ HasWord(doc[i].s, words)}))

card_name(doc, pc) ==
    LET name_tag == name_tag_of(doc, pc)
    IN IF name_tag # NoNode THEN PyStr(get_text_strip(doc, name_tag, <<>>)) ELSE PyNone

card_link(doc, pc) ==
    LET name_tag == name_tag_of(doc, pc)
        link == IF name_tag # NoNode /\ ~IsNone(doc[name_tag].href)
                THEN doc[name_tag].href ELSE PyNone
    IN IF Truthy(link) /\ Head(link.s) = "/" THEN PyStr(BASE_URL \o link.s) ELSE link

card_price(variant_, doc, pc) ==
    LET price_el == select_one(doc, pc, PriceSelectors)
        sib == find_next_sibling_text(doc, pc, PesoWords)
    IN IF price_el # NoNode THEN PyStr(get_text_strip(doc, price_el, <<>>))
       ELSE IF variant_ = "Exercise" /\ sib # NoNode THEN PyStr(strip(doc[sib].s))
       ELSE PyNone

card_snippet(doc, pc) ==
    LET spec_div == find_next_text(doc, pc, SpecificationWordsAnyCase)
    IN IF spec_div # NoNode THEN PyStr(strip(doc[spec_div].s)) ELSE PyStr(<<>>)

\* The dict appended for one card.
card_record(variant_, doc, pc) ==
    LET base == [k \in {<<"name">>, <<"link">>, <<"price_php">>} |->
                    CASE k = <<"name">> -> card_name(doc, pc)
                      [] k = <<"link">> -> card_link(doc, pc)
                      [] OTHER -> parse_price(card_price(variant_, doc, pc)).val]
    IN IF variant_ = "Exercise"
       THEN DictSet(base, <<"quick_spec">>, card_snippet(doc, pc))
       ELSE base

\* for pc in product_cards: try: ... results.append({...})
\*                          except Exception: log; continue
\* faults_ holds the positions in product_cards whose try body raises.
RECURSIVE parse_cards(_, _, _, _, _)
parse_cards(variant_, doc, cards, k, faults_) ==
    IF k > Len(cards) THEN <<>>
    ELSE (IF k \in faults_ THEN <<>> ELSE <<card_record(variant_, doc, cards[k])>>)
         \o parse_cards(variant_, doc, cards, k + 1, faults_)

\* scrape_laptops_list(page_url): raises when the page cannot be fetched.
scrape_laptops_list(variant_, page_, faults_) ==
    IF ~page_.ok THEN [raised |-> TRUE, results |-> <<>>]
    ELSE [raised |-> FALSE,
          results |-> parse_cards(variant_, page_.doc, candidate_cards(page_.doc),
                                  1, faults_)]

\* Listing pages: every document of at most MaxListNodes nodes over cards,
\* headings, links with and without href, a price element and a few strings.
MaxListNodes == 3
ListPool ==
    {ElemShape("div", "product-card", "", PyNone),
     ElemShape("h3", "", "", PyNone),
     ElemShape("a", "", "", PyStr(<<"/", "products/acer">>)),
     ElemShape("a", "", "", PyNone),
     ElemShape("span", "price", "", PyNone),
     TextShape(<<"ACER">>), TextShape(<<"ASUS">>),
     TextShape(<<"PHP", "2", "5">>), TextShape(<<"SPECIFICATION">>)}
ListDocs(n) == Docs(ListPool, n)

ListIdle == /\ page = FetchFailed
            /\ faults = {}
            /\ product_cards = <<>>
            /\ list_out = [raised |-> FALSE, results |-> <<>>]
            /\ lpc = "off"

ListInit ==
    /\ \/ /\ page = FetchFailed
          /\ faults = {}
       \/ /\ page \in {Fetched(d) : d \in ListDocs(MaxListNodes)}
          /\ faults \in SUBSET (1..Len(candidate_cards(page.doc)))
    /\ product_cards = <<>>
    /\ list_out = [raised |-> FALSE, results |-> <<>>]
    /\ lpc = "call"

ScrapeLaptopsList ==
    /\ lpc = "call"
    /\ list_out' = scrape_laptops_list(variant, page, faults)
    /\ product_cards' = IF page.ok THEN candidate_cards(page.doc) ELSE <<>>
    /\ lpc' = "done"
    /\ UNCHANGED <<variant, page, faults, priceVars, detailVars, guiVars, runVars, site>>

-----------------------------------------------------------------------------
(* merge_data, write_csv, and the drivers: Exercise.main on the one thread   *)
(* of the script; ScraperGUI.start_scraping on Tk's thread and run_scraper   *)
(* on the threads it starts.                                                 *)

\* Names for the threads that have yet to enable the button.  MaxThreads of
\* them are more than any state of the program uses: a click finds the
\* button enabled only when no such thread is left (C10).
MaxThreads == 2
Threads == 1..MaxThreads
GuiVariants == {"Scraper", "PyScraper"}

NoFile == [written |-> FALSE]

\* Mutant: a record with no detail fields is left out of the result.
merge_append_skip_bare(full_, l, more) ==
    IF more = EmptyDict THEN full_ ELSE Append(full_, DictMerge(l, more))

\* full.append({**l, **more})
merge_append(full_, l, more) == Append(full_, DictMerge(l, more))

\* write_csv(data): the field names are the keys of all the records (the
\* model keeps them as a set), one row per record.
write_csv(data) ==
    [written |-> TRUE,
     complete |-> TRUE,
     fieldnames |-> UNION {DOMAIN data[i] : i \in 1..Len(data)},
     rows |-> data]

\* write_csv(data) when a write, a flush or the close raises after open()
\* has truncated the file: the file is left with its first whole lines (the
\* header is the first) and perhaps a part of the next one.
write_csv_cut(data, lines) ==
    [written |-> TRUE,
     complete |-> FALSE,
     fieldnames |-> IF lines = 0 THEN {} ELSE write_csv(data).fieldnames,
     rows |-> SubSeq(data, 1, lines - 1)]

\* PyScraper.run_scraper: if not listings: raise ValueError(...).
\* The other two drivers have no such test.
raises_no_products(variant_, listings_) ==
    variant_ = "PyScraper" /\ listings_ = <<>>

\* Mutant: start_scraping leaves the button enabled.
button_left_enabled == "normal"

\* start_scraping: self.start_button.config(state="disabled")
button_on_start == "disabled"

\* Listing pages for whole runs: at most MaxListings h3 cards, each with a
\* link that has an href or one that has none.
MaxListings == 2
ProductNames == <<"ACER", "ASUS", "MSI", "HP", "DELL">>
CardKinds == {"linked", "unlinked"}

RECURSIVE CardsDoc(_, _)
CardsDoc(kinds, k) ==
    IF k > Len(kinds) THEN <<>>
    ELSE LET at == 3 * (k - 1)
             href == IF kinds[k] = "linked"
                     THEN PyStr(<<"/", "products/", ProductNames[k]>>) ELSE PyNone
         IN <<Elem("h3", "", "", PyNone, 0),
              Elem("a", "", "", href, at + 1),
              TextNode(<<ProductNames[k]>>, at + 2)>> \o CardsDoc(kinds, k + 1)

\* The address card k's link resolves to (urljoin with BASE_URL).
ProductUrl(k) == BASE_URL \o <<"/", "products/", ProductNames[k]>>

\* Detail pages for whole runs: a panel whose lines use the listing's own
\* keys, and a panel with a Battery line.
ClashingDetail ==
    <<Elem("div", "tab-content", "", PyNone, 0),
      TextNode(<<"name", ":", "X", "\n", "link", ":", "Y", "\n",
                 "price_php", ":", "Z", "\n", "quick_spec", ":", "Q">>, 1)>>
BatteryDetail ==
    <<Elem("div", "tab-content", "", PyNone, 0),
      TextNode(<<"CPU", ":", "i7", "\n", "Battery", ":", "4-cell">>, 1)>>

\* The detail page the site serves at a product's address.
DetailOf(url) == IF url = ProductUrl(1) THEN ClashingDetail ELSE BatteryDetail

\* The site a session scrapes: a listing page of at most n cards and the
\* detail page behind every link of it.  Any request to it may still fail.
Sites(n) ==
    {[listing |-> CardsDoc(kinds, 1),
      detail |-> [url \in {ProductUrl(k) :
                             k \in {c \in 1..Len(kinds) : kinds[c] = "linked"}}
                    |-> DetailOf(url)]] :
       kinds \in SeqsUpTo(CardKinds, n)}
NoSite == [listing |-> <<>>, detail |-> <<>>]

\* requests.get(url): the page, or an exception.
get_listing(ok) == IF ok THEN Fetched(site.listing) ELSE FetchFailed
get_detail(url, ok) == IF ok THEN Fetched(site.detail[url]) ELSE FetchFailed

ThreadLocalsInit ==
    /\ listings = [t \in Threads |-> <<>>]
    /\ idx = [t \in Threads |-> 0]
    /\ full = [t \in Threads |-> <<>>]
    /\ resps = [t \in Threads |-> <<>>]
    /\ err = [t \in Threads |-> "none"]
    /\ leaving = {}

RunIdle == /\ button = "normal" /\ progress = FALSE /\ dialog = "none"
           /\ tpc = [t \in Threads |-> "idle"]
           /\ ThreadLocalsInit
           /\ csv = NoFile
           /\ site = NoSite

\* The script starts in main(); the GUI starts with the window built.
RunInit == /\ button = "normal" /\ progress = FALSE /\ dialog = "none"
           /\ tpc = [t \in Threads |->
                        IF variant = "Exercise" /\ t = 1 THEN "listing" ELSE "idle"]
           /\ ThreadLocalsInit
           /\ csv = NoFile
           /\ site \in Sites(MaxListings)

\* Where an exception leaves the thread: run_scraper catches it, main does not.
OnRaise(variant_) == IF variant_ \in GuiVariants THEN "showerror" ELSE "crashed"

\* The Thread object a click makes: the first of the model's names that no
\* thread bears.
NewThread == CHOOSE t \in Threads : tpc[t] = "idle" /\ \A u \in 1..(t - 1) : tpc[u] # "idle"

\* ScraperGUI.start_scraping, a click on the enabled Start button.  In
\* PyScraper the URL typed may fail the startswith("http") test.
StartScraping(url_ok) ==
    /\ variant \in GuiVariants
    /\ button = "normal" /\ dialog = "none"
    /\ IF variant = "PyScraper" /\ ~url_ok
       THEN /\ dialog' = "invalid_url"
            /\ UNCHANGED <<button, progress, runVars, unitVars>>
       ELSE /\ url_ok
            /\ button' = button_on_start
            /\ progress' = TRUE
            /\ tpc' = [tpc EXCEPT ![NewThread] = "listing"]
            /\ UNCHANGED <<dialog, listings, idx, full, resps, err, leaving, csv, unitVars>>

\* The user closes the "Invalid URL" box.
DismissInvalidUrl ==
    /\ dialog = "invalid_url"
    /\ dialog' = "none"
    /\ UNCHANGED <<button, progress, runVars, unitVars>>

\* listings = scrape_laptops_list(url); log "Found N"; PyScraper's test.
ListingStage(t, ok) ==
    /\ tpc[t] = "listing"
    /\ LET out == scrape_laptops_list(variant, get_listing(ok), {})
       IN IF out.raised
          THEN /\ tpc' = [tpc EXCEPT ![t] = OnRaise(variant)]
               /\ err' = [err EXCEPT ![t] = "fetch"]
               /\ UNCHANGED listings
          ELSE IF raises_no_products(variant, out.results)
          THEN /\ tpc' = [tpc EXCEPT ![t] = OnRaise(variant)]
               /\ err' = [err EXCEPT ![t] = "no_products"]
               /\ listings' = [listings EXCEPT ![t] = out.results]
          ELSE /\ tpc' = [tpc EXCEPT ![t] = "merge"]
               /\ listings' = [listings EXCEPT ![t] = out.results]
               /\ UNCHANGED err
    /\ UNCHANGED <<guiVars, idx, full, resps, leaving, csv, unitVars>>

\* One turn of merge_data's loop: the next record, its detail page, the merge.
MergeRecord(t, ok) ==
    /\ tpc[t] = "merge"
    /\ idx[t] < Len(listings[t])
    \* without a link no request is made: resps records it as a failed one
    /\ Truthy(listings[t][idx[t] + 1][<<"link">>]) \/ ~ok
    /\ LET l == listings[t][idx[t] + 1]
           resp_ == IF Truthy(l[<<"link">>])
                    THEN get_detail(l[<<"link">>].s, ok) ELSE FetchFailed
           more == scrape_spec_page(variant, l, resp_)
       IN /\ full' = [full EXCEPT ![t] = merge_append(full[t], l, more)]
          /\ resps' = [resps EXCEPT ![t] = Append(resps[t], resp_)]
          /\ idx' = [idx EXCEPT ![t] = idx[t] + 1]
    /\ UNCHANGED <<guiVars, tpc, listings, err, leaving, csv, unitVars>>

\* merge_data's loop is over: return full.
MergeReturn(t) ==
    /\ tpc[t] = "merge"
    /\ idx[t] = Len(listings[t])
    /\ tpc' = [tpc EXCEPT ![t] = "write"]
    /\ UNCHANGED <<guiVars, listings, idx, full, resps, err, leaving, csv, unitVars>>

\* How a call of write_csv may end: it returns, open() raises, or a write
\* raises with so many whole lines in the file.
WriteOutcomes(data) ==
    {[how |-> "ok", lines |-> Len(data) + 1], [how |-> "open", lines |-> 0]}
        \cup {[how |-> "write", lines |-> n] : n \in 0..(Len(data) + 1)}

\* write_csv(full_data), and the closing message when it returns.
WriteCsv(t, out) ==
    /\ tpc[t] = "write"
    /\ IF out.how = "ok"
       THEN /\ csv' = write_csv(full[t])
            /\ tpc' = [tpc EXCEPT ![t] =
                          IF variant \in GuiVariants THEN "showinfo" ELSE "exited"]
            /\ UNCHANGED err
       ELSE /\ csv' = IF out.how = "open" THEN csv
                                          ELSE write_csv_cut(full[t], out.lines)
            /\ tpc' = [tpc EXCEPT ![t] = OnRaise(variant)]
            /\ err' = [err EXCEPT ![t] = "csv"]
    /\ UNCHANGED <<guiVars, listings, idx, full, resps, leaving, unitVars>>

\* messagebox.showinfo / showerror returns once the user closes the box.
DismissBox(t) ==
    /\ tpc[t] \in {"showinfo", "showerror"}
    /\ tpc' = [tpc EXCEPT ![t] = "finally"]
    /\ UNCHANGED <<guiVars, listings, idx, full, resps, err, leaving, csv, unitVars>>

\* finally, first statement: self.progress.stop().
FinallyStop(t) ==
    /\ tpc[t] = "finally"
    /\ progress' = FALSE
    /\ tpc' = [tpc EXCEPT ![t] = "enable"]
    /\ UNCHANGED <<button, dialog, listings, idx, full, resps, err, leaving, csv, unitVars>>

\* The locals run_scraper's frame holds once its try statement is over.
Frame(t) == [listings |-> listings[t], full_data |-> full[t]]

\* finally, last statement: self.start_button.config(state="normal") sets
\* the widget's state.  The thread is still inside the call, with its frame,
\* when the button takes clicks again: it joins the threads that are leaving.
\* Threads that are leaving with equal frames are one element of the set:
\* none has a statement left that writes anything, and nothing tells them
\* apart.
FinallyEnable(t) ==
    /\ tpc[t] = "enable"
    /\ button' = "normal"
    /\ leaving' = leaving \cup {Frame(t)}
    /\ tpc' = [tpc EXCEPT ![t] = "idle"]
    /\ listings' = [listings EXCEPT ![t] = <<>>]
    /\ idx' = [idx EXCEPT ![t] = 0]
    /\ full' = [full EXCEPT ![t] = <<>>]
    /\ resps' = [resps EXCEPT ![t] = <<>>]
    /\ err' = [err EXCEPT ![t] = "none"]
    /\ UNCHANGED <<progress, dialog, csv, unitVars>>

\* config() and then run_scraper return: the last thread leaving with the
\* frame f is gone, and the frame with it.  (The return of any other such
\* thread changes nothing.)
Return(f) ==
    /\ f \in leaving
    /\ leaving' = leaving \ {f}
    /\ UNCHANGED <<guiVars, tpc, listings, idx, full, resps, err, csv, unitVars>>

\* The steps of the thread t once it runs.
Worker(t) ==
    \/ \E ok \in BOOLEAN : ListingStage(t, ok)
    \/ \E ok \in BOOLEAN : MergeRecord(t, ok)
    \/ MergeReturn(t)
    \/ \E out \in WriteOutcomes(full[t]) : WriteCsv(t, out)
    \/ DismissBox(t)
    \/ FinallyStop(t)
    \/ FinallyEnable(t)

vars == <<variant, priceVars, detailVars, listVars, guiVars, runVars, site>>

Init == variant \in Variants /\ PriceIdle /\ DetailIdle /\ ListIdle /\ RunInit
Next ==
    \/ \E url_ok \in BOOLEAN : StartScraping(url_ok)
    \/ DismissInvalidUrl
    \/ \E t \in Threads : Worker(t)
    \/ \E f \in leaving : Return(f)
Spec == Init /\ [][Next]_vars

\* The next record of merge_data has no link: no request is made for it.
NoRequest(t) ==
    /\ tpc[t] = "merge" /\ idx[t] < Len(listings[t])
    /\ ~Truthy(listings[t][idx[t] + 1][<<"link">>])

\* The steps of the thread t that wait for nobody: not a requests.get, which
\* is called with no timeout, and not a message box, which the user closes.
Internal(t) ==
    \/ NoRequest(t) /\ MergeRecord(t, FALSE)
    \/ MergeReturn(t)
    \/ \E out \in WriteOutcomes(full[t]) : WriteCsv(t, out)
    \/ FinallyStop(t)
    \/ FinallyEnable(t)

\* The interpreter runs every thread that can take a step of its own.
Fairness == \A t \in Threads : WF_vars(Internal(t))
FairSpec == Spec /\ Fairness


InitListing == PriceIdle /\ DetailIdle /\ ListInit /\ RunIdle /\ variant \in Variants
NextListing == ScrapeLaptopsList
SpecListing == InitListing /\ [][NextListing]_vars


InitDetail == PriceIdle /\ DetailInit /\ ListIdle /\ RunIdle /\ variant \in Variants
NextDetail == ScrapeSpecPage
SpecDetail == InitDetail /\ [][NextDetail]_vars


InitPrice == PriceInit /\ DetailIdle /\ ListIdle /\ RunIdle /\ variant \in Variants
NextPrice == ParsePrice
SpecPrice == InitPrice /\ [][NextPrice]_vars

-----------------------------------------------------------------------------
(* C4 *)

\* The characters of s that the claim keeps: ASCII digits and the point.
AsciiKept(s) == SelectSeq(s, LAMBDA c : c \in AsciiDigits \cup {"."})
\* The characters the code keeps: every decimal digit and the point.
DigitKept(s) == SelectSeq(s, LAMBDA c : IsDigit(c) \/ c = ".")

NumDots(r) == Cardinality({i \in 1..Len(r) : r[i] = "."})
NumDigits(r) == Cardinality({i \in 1..Len(r) : r[i] # "."})
ValidNumber(r) == NumDots(r) <= 1 /\ NumDigits(r) >= 1

RECURSIVE Pow10(_)
Pow10(k) == IF k = 0 THEN 1 ELSE 10 * Pow10(k - 1)

\* Digits of r without the point, and the number of digits after the point.
DigitsOf(r) == SelectSeq(r, LAMBDA c : c # ".")
FracLen(r) == IF NumDots(r) = 0 THEN 0
              ELSE Len(r) - (CHOOSE i \in 1..Len(r) : r[i] = ".")
\* r read in base 10, scaled by 10^FracLen(r).
Scaled(r) == LET d == DigitsOf(r)
                 Sum[i \in 0..Len(d)] ==
                     IF i = 0 THEN 0
                     ELSE Sum[i - 1] + DigitVal(d[i]) * Pow10(Len(d) - i)
             IN Sum[Len(d)]
\* v denotes the number written by r.
Denotes(v, r) == /\ v.t = "float"
                 /\ v.num * Pow10(FracLen(r)) = Scaled(r) * Pow10(v.exp)

PriceExpected(kept) ==
    /\ ~price_out.raised
    /\ IF ~Truthy(price_str) THEN IsNone(price_out.val)
       ELSE LET r == kept
            IN IF ValidNumber(r) THEN Denotes(price_out.val, r)
               ELSE IsNone(price_out.val)

\* C4 as stated: parse_price never raises; absent or empty input gives absent;
\* otherwise the result is the number denoted by the input with everything
\* but ASCII digits and "." stripped, or absent when that is not a number.
C4_AsciiStrip ==
    ppc = "done" =>
        PriceExpected(IF Truthy(price_str) THEN AsciiKept(price_str.s) ELSE <<>>)

\* C4 amended: the same with every Unicode decimal digit (\d) kept, not only
\* the ASCII ones.
C4_DigitStrip ==
    ppc = "done" =>
        PriceExpected(IF Truthy(price_str) THEN DigitKept(price_str.s) ELSE <<>>)

\* "PHP 2,5.0" style input: characters were stripped and a number came out.
C4_Witness ==
    /\ ppc = "done"
    /\ Truthy(price_str)
    /\ Len(DigitKept(price_str.s)) < Len(price_str.s)
    /\ price_out.val.t = "float"
    /\ price_out.val.exp > 0

-----------------------------------------------------------------------------
(* C7 *)

DetailDone == dpc = "done" /\ PageParsed(laptop, resp)

\* The lines of the located block's text.
BlockLines ==
    IF spec_section = NoNode THEN <<>>
    ELSE splitlines(get_text_strip(resp.doc, spec_section, <<"\n">>))
HasColon(line) == \E i \in 1..Len(line) : line[i] = ":"
KeyOf(line) == strip(SubSeq(line, 1, FirstColon(line) - 1))
ValOf(line) == strip(SubSeq(line, FirstColon(line) + 1, Len(line)))
\* Keys the Exercise variant may write again after the block parse.
LookupKeys == IF variant = "Exercise" THEN {<<"Battery">>, <<"Weight">>} ELSE {}

\* C7: every line of the block with a colon is split at its first colon into
\* a trimmed key and a trimmed value and entered in the mapping; lines without
\* a colon enter nothing; of several lines with one key the last one wins.
C7_BlockParse ==
    DetailDone =>
        /\ \A i \in 1..Len(BlockLines) :
              HasColon(BlockLines[i]) => KeyOf(BlockLines[i]) \in DOMAIN specs
        /\ \A k \in (DOMAIN specs) \ LookupKeys :
              /\ \E i \in 1..Len(BlockLines) :
                    HasColon(BlockLines[i]) /\ KeyOf(BlockLines[i]) = k
              /\ LET last == CHOOSE i \in 1..Len(BlockLines) :
                        /\ HasColon(BlockLines[i]) /\ KeyOf(BlockLines[i]) = k
                        /\ \A j \in (i + 1)..Len(BlockLines) :
                              ~(HasColon(BlockLines[j]) /\ KeyOf(BlockLines[j]) = k)
                 IN specs[k] = PyStr(ValOf(BlockLines[last]))

\* A block whose first line has a value with a colon in it, and whose later
\* line has the same key and another value: the later value is the one kept.
C7_Witness ==
    /\ DetailDone
    /\ \E i, j \in 1..Len(BlockLines) :
          /\ i < j
          /\ HasColon(BlockLines[i]) /\ HasColon(BlockLines[j])
          /\ KeyOf(BlockLines[i]) = KeyOf(BlockLines[j])
          /\ HasWord(ValOf(BlockLines[i]), {":"})
          /\ ValOf(BlockLines[i]) # ValOf(BlockLines[j])
          /\ specs[KeyOf(BlockLines[j])] = PyStr(ValOf(BlockLines[j]))
    /\ \E i \in 1..Len(BlockLines) : ~HasColon(BlockLines[i])

-----------------------------------------------------------------------------
(* C5 *)

\* The strings of the page that a case-insensitive pattern matches.
TextHits(words) ==
    {i \in 1..Len(resp.doc) : IsText(resp.doc, i) /\ HasWord(resp.doc[i].s, words)}
FirstHit(words) == CHOOSE i \in TextHits(words) : \A j \in TextHits(words) : i <= j

LookupWins(key, words) ==
    TextHits(words) # {} =>
        /\ key \in DOMAIN specs
        /\ specs[key] = PyStr(strip(resp.doc[FirstHit(words)].s))

\* C5 as stated: in scrape_spec_page (every variant), once the page is
\* fetched, a Battery (Weight) string anywhere in the document decides the
\* final Battery (Weight) value, block or no block, whatever the block said.
C5_LookupsAlwaysRun ==
    DetailDone =>
        /\ LookupWins(<<"Battery">>, BatteryWordsAnyCase)
        /\ LookupWins(<<"Weight">>, WeightWordsAnyCase)

\* C5 amended: the same of Exercise.scrape_spec_page only; Scraper.py and
\* PyScraper.py have no Battery or Weight lookup.
C5_LookupsInExercise ==
    (DetailDone /\ variant = "Exercise") =>
        /\ LookupWins(<<"Battery">>, BatteryWordsAnyCase)
        /\ LookupWins(<<"Weight">>, WeightWordsAnyCase)

\* The block parse gave Battery the value after the colon, and the lookup
\* replaced it by the whole string; on the same page Weight came from the
\* lookup alone.
C5_Witness ==
    /\ DetailDone /\ variant = "Exercise"
    /\ spec_section # NoNode
    /\ \E i \in 1..Len(BlockLines) :
          /\ HasColon(BlockLines[i])
          /\ KeyOf(BlockLines[i]) = <<"Battery">>
          /\ specs[<<"Battery">>] # PyStr(ValOf(BlockLines[i]))
    /\ TextHits(BatteryWordsAnyCase) # {}
    /\ specs[<<"Battery">>] = PyStr(strip(resp.doc[FirstHit(BatteryWordsAnyCase)].s))

\* No block was located and the lookup still added a key.
C5_WitnessNoBlock ==
    /\ DetailDone /\ variant = "Exercise"
    /\ spec_section = NoNode
    /\ <<"Weight">> \in DOMAIN specs

-----------------------------------------------------------------------------
(* C9 *)

\* The headings of one tag whose text has the word in any case, in document
\* order.
HeadingsWithWord(tag) ==
    SelectSeq(find_all(resp.doc, 0, tag),
              LAMBDA h : HasWord(get_text(resp.doc, h), SpecificationWordsAnyCase))
\* The heading the claim selects: h4 before h3 before h2 before strong.
ClaimedHeading ==
    LET tags == <<"h4", "h3", "h2", "strong">>
        with == {k \in 1..4 : HeadingsWithWord(tags[k]) # <<>>}
    IN IF with = {} THEN NoNode
       ELSE HeadingsWithWord(tags[CHOOSE k \in with : \A m \in with : k <= m])[1]

\* C9: the block is the parent of the first heading, in the priority order
\* h4, h3, h2, strong, whose text contains "Specification" in any case; the
\* panel selectors are used only when there is no such heading.
C9_HeadingAnyCasePriority ==
    DetailDone =>
        IF ClaimedHeading # NoNode
        THEN spec_section = resp.doc[ClaimedHeading].parent
        ELSE spec_section = select_one(resp.doc, 0, SpecPanelSelectors)

\* The part of C9 the code does implement, for the record: a heading with the
\* word spelled "Specification" is found in document order, and the panel
\* selectors are used only when no heading has it.
C9_HeadingAsCoded ==
    DetailDone =>
        LET hs == SelectSeq(select(resp.doc, 0, HeadingSelectors),
                            LAMBDA h : HasWord(get_text(resp.doc, h), SpecificationWords))
        IN IF hs # <<>> THEN spec_section = resp.doc[hs[1]].parent
           ELSE spec_section = select_one(resp.doc, 0, SpecPanelSelectors)

\* A heading reading SPECIFICATION, no panel: the code locates no block.
C9_Witness ==
    /\ DetailDone
    /\ ClaimedHeading # NoNode
    /\ spec_section = NoNode

-----------------------------------------------------------------------------
(* C6 *)

ListDone == lpc = "done" /\ page.ok

IsCardElement(n) ==
    /\ n.kind = "tag"
    /\ <<n.tag, n.cls>> \in {<<"div", "product-card">>, <<"li", "product-item">>,
                             <<"div", "grid-product">>}
PrimaryCards == {i \in 1..Len(page.doc) : IsCardElement(page.doc[i])}
Headings3 == {i \in 1..Len(page.doc) : page.doc[i].kind = "tag" /\ page.doc[i].tag = "h3"}
\* The positions in product_cards that were parsed without an exception.
Parsed == SelectSeq([k \in 1..Len(product_cards) |-> k], LAMBDA k : k \notin faults)

\* C6: the h3 headings are the candidates only when no element matches the
\* card selectors, and then every h3 is one; in both modes the candidates are
\* in document order and the output has, in that order, one record for every
\* candidate whose parsing did not raise.
C6_FallbackAndOrder ==
    ListDone =>
        /\ {product_cards[k] : k \in 1..Len(product_cards)} =
              (IF PrimaryCards # {} THEN PrimaryCards ELSE Headings3)
        /\ \A j, k \in 1..Len(product_cards) : j < k => product_cards[j] < product_cards[k]
        /\ ~list_out.raised
        /\ Len(list_out.results) = Len(Parsed)
        /\ \A k \in 1..Len(Parsed) :
              list_out.results[k] = card_record(variant, page.doc, product_cards[Parsed[k]])

\* The fallback is engaged with two headings; the first has neither a name
\* nor a link and is in the output all the same, before the second.
C6_Witness ==
    /\ ListDone
    /\ PrimaryCards = {} /\ Len(product_cards) = 2 /\ faults = {}
    /\ Len(list_out.results) = 2
    /\ IsNone(list_out.results[1][<<"name">>]) /\ IsNone(list_out.results[1][<<"link">>])
    /\ Truthy(list_out.results[2][<<"link">>])

-----------------------------------------------------------------------------
(* C8 *)

\* The name the claim gives a card: the text of its first link; else its own
\* text when the card is itself a heading; else absent.
ClaimedName(doc, pc) ==
    IF find(doc, pc, "a") # NoNode
    THEN PyStr(get_text_strip(doc, find(doc, pc, "a"), <<>>))
    ELSE IF doc[pc].tag \in {"h1", "h2", "h3", "h4", "h5", "h6"}
    THEN PyStr(get_text_strip(doc, pc, <<>>))
    ELSE PyNone

\* C8: every record's name is the text of the card's first link, else the
\* card's own text when the card is a heading, else absent.
C8_NameOfCard ==
    ListDone =>
        \A k \in 1..Len(Parsed) :
            list_out.results[k][<<"name">>] =
                ClaimedName(page.doc, product_cards[Parsed[k]])

\* A fallback card, an h3 with text and no link, whose name comes out absent.
C8_Witness ==
    /\ ListDone
    /\ PrimaryCards = {} /\ Len(product_cards) = 1 /\ faults = {}
    /\ find(page.doc, product_cards[1], "a") = NoNode
    /\ get_text_strip(page.doc, product_cards[1], <<>>) # <<>>
    /\ IsNone(list_out.results[1][<<"name">>])

-----------------------------------------------------------------------------
(* C1 *)

ReservedKeys == {<<"name">>, <<"link">>, <<"price_php">>}

\* What scrape_spec_page returned for the i-th record of thread t.
MoreOf(t, i) == scrape_spec_page(variant, listings[t][i], resps[t][i])

\* C1: in every merged record a detail key replaces the listing key of the
\* same name, except name, link and price_php, which keep the listing's value.
C1_ReservedKeysKept ==
    \A t \in Threads : \A i \in 1..Len(full[t]) :
        LET l == listings[t][i]
            more == MoreOf(t, i)
        IN /\ DOMAIN full[t][i] = (DOMAIN l) \cup (DOMAIN more)
           /\ \A k \in DOMAIN full[t][i] :
                 full[t][i][k] = IF k \in ReservedKeys THEN l[k]
                                 ELSE IF k \in DOMAIN more THEN more[k]
                                 ELSE l[k]

\* A merged record whose name is the detail page's, not the listing's.
C1_Witness ==
    \E t \in Threads : \E i \in 1..Len(full[t]) :
        /\ <<"name">> \in DOMAIN MoreOf(t, i)
        /\ full[t][i][<<"name">>] = MoreOf(t, i)[<<"name">>]
        /\ full[t][i][<<"name">>] # listings[t][i][<<"name">>]

-----------------------------------------------------------------------------
(* C2 *)

InMerge(t) == tpc[t] = "merge"
PastMerge(t) == tpc[t] \in {"write", "showinfo", "exited"}
Bare(t, i) == ~Truthy(listings[t][i][<<"link">>]) \/ ~resps[t][i].ok

\* C2: merge_data takes the records once each in listing order, whatever the
\* detail fetches do; it returns as many records as it was given; a record
\* whose fetch failed or that has no link comes out as the listing made it.
C2_EveryRecordOnce ==
    \A t \in Threads :
        (InMerge(t) \/ PastMerge(t)) =>
            /\ Len(full[t]) = idx[t] /\ Len(resps[t]) = idx[t]
            /\ idx[t] <= Len(listings[t])
            /\ PastMerge(t) => Len(full[t]) = Len(listings[t])
            /\ \A i \in 1..Len(full[t]) :
                  /\ \A k \in (DOMAIN listings[t][i]) \ DOMAIN MoreOf(t, i) :
                        k \in DOMAIN full[t][i] /\ full[t][i][k] = listings[t][i][k]
                  /\ Bare(t, i) => full[t][i] = listings[t][i]

\* Two records; the first one's fetch failed, the second was fetched and
\* enriched, and merge_data has returned both.
C2_Witness ==
    \E t \in Threads :
        /\ PastMerge(t) /\ Len(listings[t]) = 2 /\ Len(full[t]) = 2
        /\ Truthy(listings[t][1][<<"link">>]) /\ ~resps[t][1].ok
        /\ full[t][1] = listings[t][1]
        /\ resps[t][2].ok /\ <<"CPU">> \in DOMAIN full[t][2]

-----------------------------------------------------------------------------
(* C3 *)

\* C3: in every driver a listing stage that yields no card is fatal: the run
\* never goes on to merge_data and write_csv.
C3_NoListingsIsFatal ==
    \A t \in Threads :
        (InMerge(t) \/ PastMerge(t)) => listings[t] # <<>>

\* The same of PyScraper.run_scraper alone, which has the test; there the
\* error shown is the "No products found" one.
C3_PyScraperOnly ==
    variant = "PyScraper" =>
        \A t \in Threads :
            /\ (InMerge(t) \/ PastMerge(t)) => listings[t] # <<>>
            /\ err[t] = "no_products" =>
                  tpc[t] \in {"showerror", "finally", "enable"}

\* A driver wrote a CSV with no rows.
C3_Witness == csv # NoFile /\ csv.complete /\ csv.rows = <<>>

-----------------------------------------------------------------------------
(* C10 *)

\* The threads inside run_scraper: those that have yet to enable the button,
\* and those that are leaving.
Working == {t \in Threads : tpc[t] # "idle"}
NumActive == Cardinality(Working) + Cardinality(leaving)

\* The run of thread t is over: it has stopped the bar and enabled the button.
Reenabled(t) == tpc[t] = "idle" /\ button = "normal" /\ ~progress

\* The thread t waits on a requests.get or on its message box.
Waiting(t) ==
    \/ tpc[t] = "listing"
    \/ tpc[t] = "merge" /\ idx[t] < Len(listings[t]) /\ ~NoRequest(t)
    \/ tpc[t] \in {"showinfo", "showerror"}

\* C10: in the GUI variants at most one run_scraper thread is active at a
\* time; the Start button is re-enabled only in run_scraper's finally
\* block; and every started run eventually re-enables the button and stops
\* the progress bar, whichever way the run goes.
C10_OneWorkerAndReenable ==
    /\ [](variant \in GuiVariants => NumActive <= 1)
    /\ [][(button = "disabled" /\ button' = "normal") =>
             \E t \in Threads : tpc[t] = "enable"]_vars
    /\ \A t \in Threads :
          (variant \in GuiVariants /\ tpc[t] # "idle") ~> Reenabled(t)

\* C10 as the code has it: at most one run_scraper thread has yet to enable
\* the button, and the button is disabled for as long as there is one, so a
\* click starts a thread only when every earlier one has enabled the button;
\* those may still be inside run_scraper.  The button is re-enabled only by
\* the last statement of a finally block.  A started run stops the bar and
\* enables the button, unless it waits for ever on a request or on its
\* message box.
C10_OneWorkingAndReenable ==
    /\ [](variant \in GuiVariants =>
            /\ Cardinality(Working) <= 1
            /\ Working # {} => button = "disabled")
    /\ [][(button = "disabled" /\ button' = "normal") =>
             \E t \in Threads : tpc[t] = "enable" /\ tpc'[t] = "idle" /\ ~progress]_vars
    /\ \A t \in Threads :
          [](variant \in GuiVariants /\ tpc[t] # "idle" =>
                <>Reenabled(t) \/ <>[]Waiting(t))

\* Two runs have enabled the button and are still inside run_scraper, with
\* different frames (one got two records, one's listing fetch failed); a
\* third click has started a run, which is fetching the listing.
C10_Witness ==
    /\ variant \in GuiVariants
    /\ Cardinality(leaving) = 2
    /\ \E f \in leaving : Len(f.full_data) = 2
    /\ \E t \in Threads : tpc[t] = "listing"
    /\ button = "disabled" /\ progress
    /\ NumActive = 3 /\ Cardinality(Working) = 1

====
